---------------------------- MODULE Spec2Model ----------------------------
(***************************************************************************)
(* The exponential integrals E1 and Ei of the exponential-integral crate:  *)
(* the Chebyshev evaluator (chebyshev.rs), the piecewise approximations    *)
(* and the sign-partitioned routers (implementation.rs) and the public     *)
(* wrappers (lib.rs, with_error.rs).                                       *)
(*                                                                         *)
(* Numbers.  An f64 is modelled by a record [m, u, p] that stands for      *)
(*        (m + u * GSL_DBL_EPSILON) / Grid * exp(p / Grid)                 *)
(* m is a fixed-point mantissa, u counts multiples of the machine epsilon  *)
(* (the error bounds of the crate are all of that size, far below the      *)
(* grid) and p is the argument of a pending libm::exp, which is kept       *)
(* symbolic because exp(700) has no fixed-point form.  Products round to   *)
(* the nearest grid point, symmetrically in the sign as IEEE-754 does, and *)
(* drop the terms in epsilon^2.                                            *)
(***************************************************************************)
EXTENDS Integers, Sequences, FiniteSets, TLC

\* Fixed-point resolution: Grid units make 1.0.
Grid == 10 * 10 * 10

M(a) == [m |-> a, u |-> 0, p |-> 0]
U(b) == [m |-> 0, u |-> b, p |-> 0]

\* Finite::<f64>::ZERO, Finite::<f64>::ONE, Finite::new(k_f64)
ZERO == M(0)
ONE == M(Grid)
F64(k) == M(k * Grid)

AbsInt(a) == IF a < 0 THEN -a ELSE a
SgnInt(a) == IF a < 0 THEN -1 ELSE 1

\* n / d rounded to the nearest integer, halves upwards (n >= 0, d > 0).
RoundQuot(n, d) == (n \div d) + (IF 2 * (n % d) >= d THEN 1 ELSE 0)

\* a / b rounded to the nearest integer, halves away from zero (b # 0).
RoundDiv(a, b) == SgnInt(a) * SgnInt(b) * RoundQuot(AbsInt(a), AbsInt(b))

Neg(a) == [m |-> -a.m, u |-> -a.u, p |-> a.p]
Add(a, b) == [m |-> a.m + b.m, u |-> a.u + b.u, p |-> a.p]
Sub(a, b) == Add(a, Neg(b))
Mul(a, b) ==
    [m |-> RoundDiv(a.m * b.m, Grid),
     u |-> RoundDiv(a.m * b.u + a.u * b.m, Grid),
     p |-> a.p + b.p]
\* The divisors of the crate (x and 3.0) are grid values without epsilon part.
Div(a, b) ==
    [m |-> RoundDiv(a.m * Grid, b.m),
     u |-> RoundDiv(a.u * Grid, b.m),
     p |-> a.p - b.p]

\* The sign of a number: its mantissa decides, then its epsilon part.
IsNeg(a) == a.m < 0 \/ (a.m = 0 /\ a.u < 0)
IsPos(a) == a.m > 0 \/ (a.m = 0 /\ a.u > 0)
Abs(a) == IF IsNeg(a) THEN Neg(a) ELSE a

\* libm::exp / f64::exp of a grid value: exp(a) = 1.0 * exp(a.m / Grid).
Exp(a) == [m |-> Grid, u |-> 0, p |-> a.m]

\* f64::ln of a positive grid value t / Grid: halve or double t into [1, 2),
\* then ln t = 2 atanh(z) with z = (t - 1) / (t + 1), at ten times the grid's
\* resolution, and ln 2 = 0.6931.
RECURSIVE LnReduce(_, _)
LnReduce(t, k) ==
    IF Grid <= t /\ t < 2 * Grid
    THEN [t |-> t, k |-> k]
    ELSE LnReduce(IF t < Grid THEN 2 * t ELSE RoundDiv(t, 2),
                  IF t < Grid THEN k - 1 ELSE k + 1)

LnTimes(z, w) == RoundDiv(z * w, 10 * Grid)

\* 2 (z + z^3 / 3 + z^5 / 5 + z^7 / 7), given z and z2 = z^2.
LnSeries(z, z2) ==
    2 * (z + RoundDiv(LnTimes(z, z2), 3)
           + RoundDiv(LnTimes(LnTimes(z, z2), z2), 5)
           + RoundDiv(LnTimes(LnTimes(LnTimes(z, z2), z2), z2), 7))

LnAtanh(z) == LnSeries(z, LnTimes(z, z))

LnReduced(r) ==
    RoundDiv(r.k * 6931
               + LnAtanh(RoundDiv((r.t - Grid) * 10 * Grid, r.t + Grid)),
             10)

LnGrid(a) == LnReduced(LnReduce(a, 0))

Ln(a) == M(LnGrid(a.m))


-----------------------------------------------------------------------------
(* constants.rs.  A coefficient is written on the grid when it is at least  *)
(* half a grid unit, in multiples of epsilon when it is below 10 epsilon,   *)
(* and is zero on both scales in between.                                   *)

size_AE11 == 39

AE11 ==
    << M(122), M(-65), M(5), M(-1), M(0), M(0),
       M(0), M(0), M(0), M(0), M(0), M(0),
       M(0), M(0), M(0), M(0), M(0), M(0),
       M(0), M(0), M(0), M(0), M(0), M(0),
       M(0), M(0), M(0), M(0), M(0), M(0),
       M(0), M(0), U(-3882), U(5508), U(3225), U(-108),
       U(-905), U(-369), U(77) >>

\* The tables the other piecewise functions name (constants::E11, AE12, E12,
\* AE13, AE14 and their sizes) are those of the reference implementation.
size_E11 == 19

E11 ==
    << M(-16113), M(7794), M(-1955), M(373), M(-57), M(7),
       M(-1), M(0), M(0), M(0), M(0), M(0),
       M(0), M(0), M(0), M(0), U(-2948), U(123),
       U(-5) >>

size_AE12 == 25

AE12 ==
    << M(582), M(-158), M(-7), M(5), M(0), M(0),
       M(0), M(0), M(0), M(0), M(0), M(0),
       M(0), M(0), M(0), M(0), M(0), M(0),
       M(0), M(0), M(0), U(-2418), U(-3225), U(-1099),
       U(-261) >>

size_E12 == 16

E12 ==
    << M(-37), M(43), M(-130), M(14), M(-1), M(0),
       M(0), M(0), M(0), M(0), M(0), M(0),
       M(0), M(0), U(-457), U(14) >>

size_AE13 == 25

AE13 ==
    << M(-606), M(-113), M(13), M(-2), M(0), M(0),
       M(0), M(0), M(0), M(0), M(0), M(0),
       M(0), M(0), M(0), M(0), M(0), M(0),
       M(0), M(0), M(0), U(-7062), U(1725), U(-423),
       U(104) >>

size_AE14 == 26

AE14 ==
    << M(-189), M(-86), M(7), M(-1), M(0), M(0),
       M(0), M(0), M(0), M(0), M(0), M(0),
       M(0), M(0), M(0), M(0), M(0), M(0),
       M(0), M(0), M(0), M(0), U(6665), U(-2162),
       U(721), U(-225) >>

\* GSL_DBL_EPSILON = 2.22e-16: one epsilon.
GSL_DBL_EPSILON == U(Grid)

\* XMAX = 701.833_414_682_1 on the grid, and NXMAX = -XMAX.
XMAX == 701833
NXMAX == -XMAX

-----------------------------------------------------------------------------
(* sigma_types.  A build with debug assertions checks the invariant of a    *)
(* sigma type when it is constructed and panics when it fails; a release    *)
(* build constructs the value unchecked.                                    *)

\* NonNegative::new(v) panics in this build.
NonNegativePanics(v, b) == b.debug /\ IsNeg(v)

\* usize::min
Min(a, b) == IF a <= b THEN a ELSE b

-----------------------------------------------------------------------------
(* chebyshev.rs *)

\* The loop of eval with the condition `*j >= 0`.
RECURSIVE evalLoop_ge_0(_, _, _, _)
evalLoop_ge_0(coefficients, two_x, st, b) ==
    IF st.j >= 0
    THEN LET coefficient == coefficients[st.j + 1]
             tmp == st.d
         IN  evalLoop_ge_0(coefficients, two_x,
                      [j |-> st.j - 1,
                       d |-> Add(Sub(Mul(two_x, st.d), st.dd), coefficient),
                       e |-> IF b.error
                             THEN Add(st.e, Add(Add(Abs(Mul(two_x, tmp)), Abs(st.dd)),
                                                Abs(coefficient)))
                             ELSE st.e,
                       dd |-> tmp,
                       js |-> Append(st.js, st.j)],
                      b)
    ELSE st

\* The `while *j >= 1` loop of eval, on the loop's variables st = [j, d, dd, e]:
\* their values when the loop exits.  st.js lists the values j took in the body.
RECURSIVE evalLoop(_, _, _, _)
evalLoop(coefficients, two_x, st, b) ==
    IF st.j >= 1
    THEN LET coefficient == coefficients[st.j + 1]
             tmp == st.d
         IN  evalLoop(coefficients, two_x,
                      [j |-> st.j - 1,
                       d |-> Add(Sub(Mul(two_x, st.d), st.dd), coefficient),
                       e |-> IF b.error
                             THEN Add(st.e, Add(Add(Abs(Mul(two_x, tmp)), Abs(st.dd)),
                                                Abs(coefficient)))
                             ELSE st.e,
                       dd |-> tmp,
                       js |-> Append(st.js, st.j)],
                      b)
    ELSE st

\* eval with the whole step after the loop compiled by the error feature only.
eval_tail_in_cfg(coefficients, x, order, b) ==
    LET N_COEFFICIENTS == Len(coefficients)
        two_x == Mul(F64(2), x)
        j == IF b.precision THEN order ELSE N_COEFFICIENTS - 1
        coefficient == coefficients[0 + 1]
        half_coefficient == Mul(M(Grid \div 2), coefficient)
        last_coefficient == coefficients[(N_COEFFICIENTS - 1) + 1]
        after(loop) ==
            LET tmp == loop.d
                d == Add(Sub(Mul(x, loop.d), loop.dd), half_coefficient)
                e == Add(loop.e, Add(Add(Abs(Mul(x, tmp)), Abs(loop.dd)),
                                     Abs(half_coefficient)))
            IN  [value |-> IF b.error THEN d ELSE loop.d,
                 error |-> IF b.error
                           THEN Add(Mul(GSL_DBL_EPSILON, e), Abs(last_coefficient))
                           ELSE ZERO,
                 panic |-> FALSE,
                 coefficients |-> coefficients, x |-> x, order |-> j,
                 js |-> loop.js, j |-> loop.j,
                 e |-> IF b.error THEN e ELSE ZERO,
                 reads |-> loop.js \o << 0 >>
                           \o (IF b.error THEN << N_COEFFICIENTS - 1 >> ELSE << >>)]
    IN  after(evalLoop(coefficients, two_x,
                       [j |-> j, d |-> ZERO, dd |-> ZERO, e |-> ZERO, js |-> << >>],
                       b))

\* eval starting its loop at `order` in every build.
eval_always_order(coefficients, x, order, b) ==
    LET N_COEFFICIENTS == Len(coefficients)
        two_x == Mul(F64(2), x)
        j == order
        coefficient == coefficients[0 + 1]
        half_coefficient == Mul(M(Grid \div 2), coefficient)
        last_coefficient == coefficients[(N_COEFFICIENTS - 1) + 1]
        after(loop) ==
            LET tmp == loop.d
                d == Add(Sub(Mul(x, loop.d), loop.dd), half_coefficient)
                e == Add(loop.e, Add(Add(Abs(Mul(x, tmp)), Abs(loop.dd)),
                                     Abs(half_coefficient)))
            IN  [value |-> d,
                 error |-> IF b.error
                           THEN Add(Mul(GSL_DBL_EPSILON, e), Abs(last_coefficient))
                           ELSE ZERO,
                 panic |-> FALSE,
                 coefficients |-> coefficients, x |-> x, order |-> j,
                 js |-> loop.js, j |-> loop.j,
                 e |-> IF b.error THEN e ELSE ZERO,
                 reads |-> loop.js \o << 0 >>
                           \o (IF b.error THEN << N_COEFFICIENTS - 1 >> ELSE << >>)]
    IN  after(evalLoop(coefficients, two_x,
                       [j |-> j, d |-> ZERO, dd |-> ZERO, e |-> ZERO, js |-> << >>],
                       b))

\* eval with the step after the loop multiplying by two_x as the loop does.
eval_tail_two_x(coefficients, x, order, b) ==
    LET N_COEFFICIENTS == Len(coefficients)
        two_x == Mul(F64(2), x)
        j == IF b.precision THEN order ELSE N_COEFFICIENTS - 1
        coefficient == coefficients[0 + 1]
        half_coefficient == Mul(M(Grid \div 2), coefficient)
        last_coefficient == coefficients[(N_COEFFICIENTS - 1) + 1]
        after(loop) ==
            LET tmp == loop.d
                d == Add(Sub(Mul(two_x, loop.d), loop.dd), half_coefficient)
                e == Add(loop.e, Add(Add(Abs(Mul(x, tmp)), Abs(loop.dd)),
                                     Abs(half_coefficient)))
            IN  [value |-> d,
                 error |-> IF b.error
                           THEN Add(Mul(GSL_DBL_EPSILON, e), Abs(last_coefficient))
                           ELSE ZERO,
                 panic |-> FALSE,
                 coefficients |-> coefficients, x |-> x, order |-> j,
                 js |-> loop.js, j |-> loop.j,
                 e |-> IF b.error THEN e ELSE ZERO,
                 reads |-> loop.js \o << 0 >>
                           \o (IF b.error THEN << N_COEFFICIENTS - 1 >> ELSE << >>)]
    IN  after(evalLoop(coefficients, two_x,
                       [j |-> j, d |-> ZERO, dd |-> ZERO, e |-> ZERO, js |-> << >>],
                       b))

\* chebyshev::eval: `order` is the argument of the precision feature; without
\* the feature the loop starts at N_COEFFICIENTS - 1.  after(loop) is the code
\* that follows the loop.  Next to the Approx it returns, the record keeps the
\* call's arguments, the order the loop started from, the values of j in the
\* loop body and after it, the sum e and the indices of the coefficients read.
eval(coefficients, x, order, b) ==
    LET N_COEFFICIENTS == Len(coefficients)
        two_x == Mul(F64(2), x)
        j == IF b.precision THEN order ELSE N_COEFFICIENTS - 1
        coefficient == coefficients[0 + 1]
        half_coefficient == Mul(M(Grid \div 2), coefficient)
        last_coefficient == coefficients[(N_COEFFICIENTS - 1) + 1]
        after(loop) ==
            LET tmp == loop.d
                d == Add(Sub(Mul(x, loop.d), loop.dd), half_coefficient)
                e == Add(loop.e, Add(Add(Abs(Mul(x, tmp)), Abs(loop.dd)),
                                     Abs(half_coefficient)))
            IN  [value |-> d,
                 error |-> IF b.error
                           THEN Add(Mul(GSL_DBL_EPSILON, e), Abs(last_coefficient))
                           ELSE ZERO,
                 panic |-> FALSE,
                 coefficients |-> coefficients, x |-> x, order |-> j,
                 js |-> loop.js, j |-> loop.j,
                 e |-> IF b.error THEN e ELSE ZERO,
                 reads |-> loop.js \o << 0 >>
                           \o (IF b.error THEN << N_COEFFICIENTS - 1 >> ELSE << >>)]
    IN  after(evalLoop(coefficients, two_x,
                       [j |-> j, d |-> ZERO, dd |-> ZERO, e |-> ZERO, js |-> << >>],
                       b))

-----------------------------------------------------------------------------
(* implementation.rs, mod piecewise.  max_precision is read only by a build *)
(* with the precision feature; the error field only by one with the error   *)
(* feature (ZERO stands for the absent field).  In each function with(..)   *)
(* is the code that follows the call of chebyshev::eval, and                *)
(* Approx(value, init_err, addl_err, checked, cheb) is the struct it        *)
(* builds, with error: init_err + addl_err; in a build with the error       *)
(* feature `checked` tells that error goes through NonNegative::new.  The   *)
(* record keeps the two terms of the error and what chebyshev::eval         *)
(* returned.                                                                *)

Approx(value, init_err, addl_err, checked, cheb, b) ==
    [value |-> value,
     error |-> IF b.error THEN Add(init_err, addl_err) ELSE ZERO,
     panic |-> b.error /\ checked /\ NonNegativePanics(Add(init_err, addl_err), b),
     init_err |-> IF b.error THEN init_err ELSE ZERO,
     addl_err |-> IF b.error THEN addl_err ELSE ZERO,
     cheb |-> cheb]

\* Between -4 and -1.
le_neg_1(x, max_precision, b) ==
    LET epsilon == GSL_DBL_EPSILON
        with(nln, cheb) ==
            LET value == Add(nln, cheb.value)
                init_err == Add(cheb.error, Mul(epsilon, Abs(nln)))
                addl_err == Mul(Mul(F64(2), epsilon), Abs(value))
            IN  Approx(value, init_err, addl_err, FALSE, cheb, b)
    IN  with(Neg(Ln(Abs(x))),
             eval(E11,
                  Div(Add(Mul(F64(2), x), F64(5)), F64(3)),
                  Min(max_precision, size_E11 - 1), b))

\* le_neg_10 with the second error term taken from value instead of |value|.
le_neg_10_signed_value(x, max_precision, b) ==
    LET s == Mul(Div(ONE, x), Exp(Neg(x)))
        with(cheb) ==
            LET value == Mul(s, Add(ONE, cheb.value))
                init_err == Mul(s, cheb.error)
                abs_x == Abs(x)
                epsilon == GSL_DBL_EPSILON
                two == F64(2)
                addl_err == Mul(Mul(Mul(two, epsilon), Add(abs_x, ONE)), value)
            IN  Approx(value, init_err, addl_err, TRUE, cheb, b)
    IN  with(eval(AE11,
                  Add(Div(F64(20), x), ONE),
                  Min(max_precision, size_AE11 - 1), b))

\* le_neg_10 clamping max_precision one below the order of its table.
le_neg_10_clamp_short(x, max_precision, b) ==
    LET s == Mul(Div(ONE, x), Exp(Neg(x)))
        with(cheb) ==
            LET value == Mul(s, Add(ONE, cheb.value))
                init_err == Mul(s, cheb.error)
                abs_x == Abs(x)
                abs_value == Abs(value)
                epsilon == GSL_DBL_EPSILON
                two == F64(2)
                addl_err == Mul(Mul(Mul(two, epsilon), Add(abs_x, ONE)), abs_value)
            IN  Approx(value, init_err, addl_err, TRUE, cheb, b)
    IN  with(eval(AE11,
                  Add(Div(F64(20), x), ONE),
                  Min(max_precision, size_AE11 - 2), b))

\* Between the minimum input (around -710) and -10.
le_neg_10(x, max_precision, b) ==
    LET s == Mul(Div(ONE, x), Exp(Neg(x)))
        with(cheb) ==
            LET value == Mul(s, Add(ONE, cheb.value))
                init_err == Mul(s, cheb.error)
                abs_x == Abs(x)
                abs_value == Abs(value)
                epsilon == GSL_DBL_EPSILON
                two == F64(2)
                addl_err == Mul(Mul(Mul(two, epsilon), Add(abs_x, ONE)), abs_value)
            IN  Approx(value, init_err, addl_err, TRUE, cheb, b)
    IN  with(eval(AE11,
                  Add(Div(F64(20), x), ONE),
                  Min(max_precision, size_AE11 - 1), b))

\* le_neg_4 with the second error term taken from value instead of |value|.
le_neg_4_signed_value(x, max_precision, b) ==
    LET s == Mul(Div(ONE, x), Exp(Neg(x)))
        with(cheb) ==
            LET value == Mul(s, Add(ONE, cheb.value))
                init_err == Mul(s, cheb.error)
                two == F64(2)
                epsilon == GSL_DBL_EPSILON
                addl_err == Mul(Mul(two, epsilon), value)
            IN  Approx(value, init_err, addl_err, TRUE, cheb, b)
    IN  with(eval(AE12,
                  Div(Add(Div(F64(40), x), F64(7)), F64(3)),
                  Min(max_precision, size_AE12 - 1), b))

\* Between -10 and -4.
le_neg_4(x, max_precision, b) ==
    LET s == Mul(Div(ONE, x), Exp(Neg(x)))
        with(cheb) ==
            LET value == Mul(s, Add(ONE, cheb.value))
                init_err == Mul(s, cheb.error)
                abs_value == Abs(value)
                two == F64(2)
                epsilon == GSL_DBL_EPSILON
                addl_err == Mul(Mul(two, epsilon), abs_value)
            IN  Approx(value, init_err, addl_err, TRUE, cheb, b)
    IN  with(eval(AE12,
                  Div(Add(Div(F64(40), x), F64(7)), F64(3)),
                  Min(max_precision, size_AE12 - 1), b))

\* Between -1 and +1.
le_pos_1(x, max_precision, b) ==
    LET epsilon == GSL_DBL_EPSILON
        with(nln, cheb) ==
            LET value == Add(Add(Sub(nln, M(RoundDiv(6875 * Grid, 10000))), x),
                             cheb.value)
                init_err == Add(cheb.error, Mul(epsilon, Abs(nln)))
                addl_err == Mul(Mul(F64(2), epsilon), Abs(value))
            IN  Approx(value, init_err, addl_err, FALSE, cheb, b)
    IN  with(Neg(Ln(Abs(x))),
             eval(E12, x, Min(max_precision, size_E12 - 1), b))

\* le_pos_4 with the factor (x + 1) of le_pos_max in its second error term.
le_pos_4_with_factor(x, max_precision, b) ==
    LET s == Mul(Div(ONE, x), Exp(Neg(x)))
        with(cheb) ==
            LET value == Mul(s, Add(ONE, cheb.value))
                init_err == Mul(s, cheb.error)
                epsilon == GSL_DBL_EPSILON
                addl_err == Mul(Mul(Mul(F64(2), Add(x, F64(1))), epsilon), Abs(value))
            IN  Approx(value, init_err, addl_err, TRUE, cheb, b)
    IN  with(eval(AE13,
                  Div(Sub(Div(F64(8), x), F64(5)), F64(3)),
                  Min(max_precision, size_AE13 - 1), b))

\* le_pos_4 rescaling its input as le_pos_max does.
le_pos_4_rescaled_as_max(x, max_precision, b) ==
    LET s == Mul(Div(ONE, x), Exp(Neg(x)))
        with(cheb) ==
            LET value == Mul(s, Add(ONE, cheb.value))
                init_err == Mul(s, cheb.error)
                epsilon == GSL_DBL_EPSILON
                addl_err == Mul(Mul(F64(2), epsilon), Abs(value))
            IN  Approx(value, init_err, addl_err, TRUE, cheb, b)
    IN  with(eval(AE13,
                  Sub(Div(F64(8), x), F64(1)),
                  Min(max_precision, size_AE13 - 1), b))

\* Between +1 and +4.
le_pos_4(x, max_precision, b) ==
    LET s == Mul(Div(ONE, x), Exp(Neg(x)))
        with(cheb) ==
            LET value == Mul(s, Add(ONE, cheb.value))
                init_err == Mul(s, cheb.error)
                epsilon == GSL_DBL_EPSILON
                addl_err == Mul(Mul(F64(2), epsilon), Abs(value))
            IN  Approx(value, init_err, addl_err, TRUE, cheb, b)
    IN  with(eval(AE13,
                  Div(Sub(Div(F64(8), x), F64(5)), F64(3)),
                  Min(max_precision, size_AE13 - 1), b))

\* le_pos_max with the first error term of the other scaled branches.
le_pos_max_no_eps(x, max_precision, b) ==
    LET s == Mul(Div(ONE, x), Exp(Neg(x)))
        epsilon == GSL_DBL_EPSILON
        with(cheb) ==
            LET value == Mul(s, Add(ONE, cheb.value))
                init_err == Mul(s, cheb.error)
                also_x == x
                addl_err == Mul(Mul(Mul(F64(2), Add(also_x, F64(1))), epsilon),
                                Abs(value))
            IN  Approx(value, init_err, addl_err, TRUE, cheb, b)
    IN  with(eval(AE14,
                  Sub(Div(F64(8), x), F64(1)),
                  Min(max_precision, size_AE14 - 1), b))

\* Between +4 and the maximum input (around 710).
le_pos_max(x, max_precision, b) ==
    LET s == Mul(Div(ONE, x), Exp(Neg(x)))
        epsilon == GSL_DBL_EPSILON
        with(cheb) ==
            LET value == Mul(s, Add(ONE, cheb.value))
                init_err == Mul(s, Add(epsilon, cheb.error))
                also_x == x
                addl_err == Mul(Mul(Mul(F64(2), Add(also_x, F64(1))), epsilon),
                                Abs(value))
            IN  Approx(value, init_err, addl_err, TRUE, cheb, b)
    IN  with(eval(AE14,
                  Sub(Div(F64(8), x), F64(1)),
                  Min(max_precision, size_AE14 - 1), b))

-----------------------------------------------------------------------------
(* The outcome of a call: kind is "Ok", an error, "Panic" (a sigma-type     *)
(* check failed in a build with debug assertions) or "Unreachable" (a       *)
(* branch marked unreachable_unchecked was taken).  handler and harg record  *)
(* the piecewise function the router chose and the argument it handed over.  *)

NoCheb ==
    [value |-> ZERO, error |-> ZERO, panic |-> FALSE,
     coefficients |-> << >>, x |-> ZERO, order |-> 0, js |-> << >>, j |-> 0,
     e |-> ZERO, reads |-> << >>]

NoApprox ==
    [value |-> ZERO, error |-> ZERO, panic |-> FALSE,
     init_err |-> ZERO, addl_err |-> ZERO, cheb |-> NoCheb]

Ok(handler, harg, approx) ==
    [kind |-> IF approx.panic THEN "Panic" ELSE "Ok",
     approx |-> approx, arg |-> ZERO, handler |-> handler, harg |-> harg]

Err(kind, arg) ==
    [kind |-> kind, approx |-> NoApprox, arg |-> arg,
     handler |-> "none", harg |-> ZERO]

Unreachable ==
    [kind |-> "Unreachable", approx |-> NoApprox, arg |-> ZERO,
     handler |-> "none", harg |-> ZERO]

\* f64::partial_cmp on finite grid values (None is the answer for a NaN only).
partial_cmp(a, c) ==
    IF a.m < c.m THEN "Less" ELSE IF a.m = c.m THEN "Equal" ELSE "Greater"

-----------------------------------------------------------------------------
(* implementation.rs, mod neg, mod pos and E1 *)

\* neg::E1 with -XMAX itself accepted (`x < -xmax` as the only error).
impl_neg_E1_lt_xmax(x, max_precision, b) ==
    LET c10 == partial_cmp(x, F64(-10))
        cmax == partial_cmp(x, M(NXMAX))
        c4 == partial_cmp(x, F64(-4))
        c1 == partial_cmp(x, F64(-1))
    IN  CASE c10 = "Equal" ->
                Ok("le_neg_10", x, le_neg_10(x, max_precision, b))
          [] c10 = "Less" ->
                (CASE cmax \in {"Greater", "Equal"} ->
                         Ok("le_neg_10", x, le_neg_10(x, max_precision, b))
                   [] cmax = "Less" -> Err("neg_HugeArgument", x)
                   [] OTHER -> Unreachable)
          [] c10 = "Greater" ->
                (CASE c4 \in {"Less", "Equal"} ->
                         Ok("le_neg_4", x, le_neg_4(x, max_precision, b))
                   [] c4 = "Greater" ->
                         (CASE c1 \in {"Less", "Equal"} ->
                                  Ok("le_neg_1", x, le_neg_1(x, max_precision, b))
                            [] c1 = "Greater" ->
                                  Ok("le_pos_1", x, le_pos_1(x, max_precision, b))
                            [] OTHER -> Unreachable)
                   [] OTHER -> Unreachable)
          [] OTHER -> Unreachable

\* neg::E1 with the tie at -10 sent to le_neg_4.
impl_neg_E1_tie_le_neg_4(x, max_precision, b) ==
    LET c10 == partial_cmp(x, F64(-10))
        cmax == partial_cmp(x, M(NXMAX))
        c4 == partial_cmp(x, F64(-4))
        c1 == partial_cmp(x, F64(-1))
    IN  CASE c10 = "Equal" ->
                Ok("le_neg_4", x, le_neg_4(x, max_precision, b))
          [] c10 = "Less" ->
                (CASE cmax = "Greater" ->
                         Ok("le_neg_10", x, le_neg_10(x, max_precision, b))
                   [] cmax \in {"Less", "Equal"} -> Err("neg_HugeArgument", x)
                   [] OTHER -> Unreachable)
          [] c10 = "Greater" ->
                (CASE c4 \in {"Less", "Equal"} ->
                         Ok("le_neg_4", x, le_neg_4(x, max_precision, b))
                   [] c4 = "Greater" ->
                         (CASE c1 \in {"Less", "Equal"} ->
                                  Ok("le_neg_1", x, le_neg_1(x, max_precision, b))
                            [] c1 = "Greater" ->
                                  Ok("le_pos_1", x, le_pos_1(x, max_precision, b))
                            [] OTHER -> Unreachable)
                   [] OTHER -> Unreachable)
          [] OTHER -> Unreachable

\* neg::E1 handing -x to le_pos_1 on (-1, 0).
impl_neg_E1_flipped(x, max_precision, b) ==
    LET c10 == partial_cmp(x, F64(-10))
        cmax == partial_cmp(x, M(NXMAX))
        c4 == partial_cmp(x, F64(-4))
        c1 == partial_cmp(x, F64(-1))
    IN  CASE c10 = "Equal" ->
                Ok("le_neg_10", x, le_neg_10(x, max_precision, b))
          [] c10 = "Less" ->
                (CASE cmax = "Greater" ->
                         Ok("le_neg_10", x, le_neg_10(x, max_precision, b))
                   [] cmax \in {"Less", "Equal"} -> Err("neg_HugeArgument", x)
                   [] OTHER -> Unreachable)
          [] c10 = "Greater" ->
                (CASE c4 \in {"Less", "Equal"} ->
                         Ok("le_neg_4", x, le_neg_4(x, max_precision, b))
                   [] c4 = "Greater" ->
                         (CASE c1 \in {"Less", "Equal"} ->
                                  Ok("le_neg_1", x, le_neg_1(x, max_precision, b))
                            [] c1 = "Greater" ->
                                  Ok("le_pos_1", Neg(x), le_pos_1(Neg(x), max_precision, b))
                            [] OTHER -> Unreachable)
                   [] OTHER -> Unreachable)
          [] OTHER -> Unreachable

\* implementation::neg::E1
impl_neg_E1(x, max_precision, b) ==
    LET c10 == partial_cmp(x, F64(-10))
        cmax == partial_cmp(x, M(NXMAX))
        c4 == partial_cmp(x, F64(-4))
        c1 == partial_cmp(x, F64(-1))
    IN  CASE c10 = "Equal" ->
                Ok("le_neg_10", x, le_neg_10(x, max_precision, b))
          [] c10 = "Less" ->
                (CASE cmax = "Greater" ->
                         Ok("le_neg_10", x, le_neg_10(x, max_precision, b))
                   [] cmax \in {"Less", "Equal"} -> Err("neg_HugeArgument", x)
                   [] OTHER -> Unreachable)
          [] c10 = "Greater" ->
                (CASE c4 \in {"Less", "Equal"} ->
                         Ok("le_neg_4", x, le_neg_4(x, max_precision, b))
                   [] c4 = "Greater" ->
                         (CASE c1 \in {"Less", "Equal"} ->
                                  Ok("le_neg_1", x, le_neg_1(x, max_precision, b))
                            [] c1 = "Greater" ->
                                  Ok("le_pos_1", x, le_pos_1(x, max_precision, b))
                            [] OTHER -> Unreachable)
                   [] OTHER -> Unreachable)
          [] OTHER -> Unreachable

\* pos::E1 with XMAX itself accepted (`x <= xmax`).
impl_pos_E1_le_xmax(x, max_precision, b) ==
    LET c4 == partial_cmp(x, F64(4))
        c1 == partial_cmp(x, F64(1))
        cmax == partial_cmp(x, M(XMAX))
    IN  CASE c4 = "Equal" ->
                Ok("le_pos_4", x, le_pos_4(x, max_precision, b))
          [] c4 = "Less" ->
                (CASE c1 \in {"Less", "Equal"} ->
                         Ok("le_pos_1", x, le_pos_1(x, max_precision, b))
                   [] c1 = "Greater" ->
                         Ok("le_pos_4", x, le_pos_4(x, max_precision, b))
                   [] OTHER -> Unreachable)
          [] c4 = "Greater" ->
                (CASE cmax \in {"Less", "Equal"} ->
                         Ok("le_pos_max", x, le_pos_max(x, max_precision, b))
                   [] cmax = "Greater" -> Err("pos_HugeArgument", x)
                   [] OTHER -> Unreachable)
          [] OTHER -> Unreachable

\* pos::E1 with the arm for x = 1 forgotten.
impl_pos_E1_missing_equal(x, max_precision, b) ==
    LET c4 == partial_cmp(x, F64(4))
        c1 == partial_cmp(x, F64(1))
        cmax == partial_cmp(x, M(XMAX))
    IN  CASE c4 = "Equal" ->
                Ok("le_pos_4", x, le_pos_4(x, max_precision, b))
          [] c4 = "Less" ->
                (CASE c1 = "Less" ->
                         Ok("le_pos_1", x, le_pos_1(x, max_precision, b))
                   [] c1 = "Greater" ->
                         Ok("le_pos_4", x, le_pos_4(x, max_precision, b))
                   [] OTHER -> Unreachable)
          [] c4 = "Greater" ->
                (CASE cmax = "Less" ->
                         Ok("le_pos_max", x, le_pos_max(x, max_precision, b))
                   [] cmax \in {"Equal", "Greater"} -> Err("pos_HugeArgument", x)
                   [] OTHER -> Unreachable)
          [] OTHER -> Unreachable

\* implementation::pos::E1
impl_pos_E1(x, max_precision, b) ==
    LET c4 == partial_cmp(x, F64(4))
        c1 == partial_cmp(x, F64(1))
        cmax == partial_cmp(x, M(XMAX))
    IN  CASE c4 = "Equal" ->
                Ok("le_pos_4", x, le_pos_4(x, max_precision, b))
          [] c4 = "Less" ->
                (CASE c1 \in {"Less", "Equal"} ->
                         Ok("le_pos_1", x, le_pos_1(x, max_precision, b))
                   [] c1 = "Greater" ->
                         Ok("le_pos_4", x, le_pos_4(x, max_precision, b))
                   [] OTHER -> Unreachable)
          [] c4 = "Greater" ->
                (CASE cmax = "Less" ->
                         Ok("le_pos_max", x, le_pos_max(x, max_precision, b))
                   [] cmax \in {"Equal", "Greater"} -> Err("pos_HugeArgument", x)
                   [] OTHER -> Unreachable)
          [] OTHER -> Unreachable

\* Result::map_err with a closure that rewraps the argument of `from` as `to`.
map_err(r, from, to) ==
    IF r.kind = from THEN [r EXCEPT !.kind = to] ELSE r

\* implementation::E1
impl_E1(x, max_precision, b) ==
    LET c0 == partial_cmp(x, F64(0))
    IN  CASE c0 = "Less" ->
                map_err(impl_neg_E1(x, max_precision, b),
                        "neg_HugeArgument", "ArgumentTooNegative")
          [] c0 = "Greater" ->
                map_err(impl_pos_E1(x, max_precision, b),
                        "pos_HugeArgument", "ArgumentTooPositive")
          [] OTHER -> Unreachable

-----------------------------------------------------------------------------
(* lib.rs and with_error.rs *)

\* crate::E1
E1(x, max_precision, b) == impl_E1(x, max_precision, b)

\* The closure of Ei negating the whole Approx.
map_negate_all(r) ==
    IF r.kind = "Ok"
    THEN [r EXCEPT !.approx = [@ EXCEPT !.value = Neg(@), !.error = Neg(@)]]
    ELSE r

\* Result::map with the closure of Ei: the value of an Ok is negated.
map_negate_value(r) ==
    IF r.kind = "Ok"
    THEN [r EXCEPT !.approx = [@ EXCEPT !.value = Neg(@)]]
    ELSE r

\* Ei without the sign flip of its argument.
Ei_unflipped(x, max_precision, b) == map_negate_value(E1(x, max_precision, b))

\* crate::Ei
Ei(x, max_precision, b) == map_negate_value(E1(Neg(x), max_precision, b))

\* with_error::E1: the build has the error feature and no precision feature.
with_error_E1(x, b) == impl_E1(x, 0, b)

\* Result::map with the closure of with_error::Ei, which builds a new Approx.
map_rebuild(r) ==
    IF r.kind = "Ok"
    THEN [r EXCEPT !.approx = [error |-> @.error, value |-> Neg(@.value),
                               panic |-> @.panic, init_err |-> @.init_err,
                               addl_err |-> @.addl_err, cheb |-> @.cheb]]
    ELSE r

\* with_error::Ei
with_error_Ei(x, b) == map_rebuild(with_error_E1(Neg(x), b))

\* crate::neg::E1 and crate::pos::E1
neg_E1(x, max_precision, b) == impl_neg_E1(x, max_precision, b)

pos_E1(x, max_precision, b) == impl_pos_E1(x, max_precision, b)

\* Result::map_err with the closure |from(arg)| to(-arg)
map_err_negate(r, from, to) ==
    IF r.kind = from THEN [r EXCEPT !.kind = to, !.arg = Neg(@)] ELSE r

\* neg::Ei rewrapping the argument of the error as it comes.
neg_Ei_error_unflipped(x, max_precision, b) ==
    map_err(map_negate_value(pos_E1(Neg(x), max_precision, b)),
            "pos_HugeArgument", "neg_HugeArgument")

\* crate::neg::Ei
neg_Ei(x, max_precision, b) ==
    map_err_negate(map_negate_value(pos_E1(Neg(x), max_precision, b)),
                   "pos_HugeArgument", "neg_HugeArgument")

\* crate::pos::Ei
pos_Ei(x, max_precision, b) ==
    map_err_negate(map_negate_value(neg_E1(Neg(x), max_precision, b)),
                   "neg_HugeArgument", "pos_HugeArgument")

-----------------------------------------------------------------------------
(* The state: the build (its cargo features and whether debug assertions    *)
(* are on), and the last call made: the function, its arguments and what it *)
(* returned.  last is an earlier call, with its result, that the caller     *)
(* kept to compare a later call with.                                       *)

VARIABLES build, fn, x, max_precision, res, last

vars == << build, fn, x, max_precision, res, last >>

\* How far around each boundary of the partition the inputs are taken.
Near == 1

\* The largest max_precision tried (the longest table has 39 coefficients).
MaxPrecision == 40

Boundaries == {0, 1 * Grid, 4 * Grid, 10 * Grid, XMAX}

Interior == {Grid \div 2, 2 * Grid + Grid \div 2, 7 * Grid, 16 * Grid,
             350 * Grid, 702 * Grid}

\* The nonzero finite inputs: NonZero<Finite<f64>>.
XInputs ==
    { M(v) : v \in { sg * (c + d) : sg \in {-1, 1}, c \in Boundaries,
                                    d \in -Near .. Near }
                   \cup { sg * c : sg \in {-1, 1}, c \in Interior } } \ {M(0)}

Builds == [error : BOOLEAN, precision : BOOLEAN, debug : BOOLEAN]

\* The max_precision arguments a build takes: none without the feature.
Precisions(b) == IF b.precision THEN 0 .. MaxPrecision ELSE {0}

NoResult == Err("none", ZERO)

NoCall == [fn |-> "none", x |-> ONE, max_precision |-> 0, res |-> NoResult]

Init ==
    /\ build \in Builds
    /\ fn = "none"
    /\ x = ONE
    /\ max_precision = 0
    /\ res = NoResult
    /\ last = NoCall

\* A call is made when no call is under way; Return forgets the finished call,
\* so that any sequence of calls is a behaviour.
\* crate::E1 with the order latched by the first call the caller kept.
CallE1_latched(xin, mp) ==
    /\ fn = "none"
    /\ fn' = "E1"
    /\ x' = xin
    /\ max_precision' = mp
    /\ res' = E1(xin, IF last.fn = "none" THEN mp ELSE last.max_precision, build)
    /\ UNCHANGED << build, last >>

CallE1(xin, mp) ==
    /\ fn = "none"
    /\ fn' = "E1"
    /\ x' = xin
    /\ max_precision' = mp
    /\ res' = E1(xin, mp, build)
    /\ UNCHANGED << build, last >>

CallEi(xin, mp) ==
    /\ fn = "none"
    /\ fn' = "Ei"
    /\ x' = xin
    /\ max_precision' = mp
    /\ res' = Ei(xin, mp, build)
    /\ UNCHANGED << build, last >>

CallWithErrorE1(xin) ==
    /\ fn = "none"
    /\ build.error /\ ~build.precision
    /\ fn' = "with_error::E1"
    /\ x' = xin
    /\ max_precision' = 0
    /\ res' = with_error_E1(xin, build)
    /\ UNCHANGED << build, last >>

CallWithErrorEi(xin) ==
    /\ fn = "none"
    /\ build.error /\ ~build.precision
    /\ fn' = "with_error::Ei"
    /\ x' = xin
    /\ max_precision' = 0
    /\ res' = with_error_Ei(xin, build)
    /\ UNCHANGED << build, last >>

Return ==
    /\ fn # "none"
    /\ fn' = "none"
    /\ x' = ONE
    /\ max_precision' = 0
    /\ res' = NoResult
    /\ UNCHANGED << build, last >>

Next ==
    \/ \E xin \in XInputs, mp \in Precisions(build) : CallE1(xin, mp)
    \/ \E xin \in XInputs, mp \in Precisions(build) : CallEi(xin, mp)
    \/ \E xin \in XInputs : CallWithErrorE1(xin)
    \/ \E xin \in XInputs : CallWithErrorEi(xin)
    \/ Return

Spec == Init /\ [][Next]_vars

\* The caller keeps the finished call and its result.
Remember ==
    /\ fn # "none"
    /\ last' = [fn |-> fn, x |-> x, max_precision |-> max_precision, res |-> res]
    /\ fn' = "none"
    /\ x' = ONE
    /\ max_precision' = 0
    /\ res' = NoResult
    /\ UNCHANGED build

\* Inputs of the calls that are made again: one in each interval and +-XMAX.
XRepeat ==
    { M(sg * c) : sg \in {-1, 1},
                  c \in {Grid \div 2, 2 * Grid + Grid \div 2, 7 * Grid, 16 * Grid, XMAX} }

PrecisionsRepeat(b) == IF b.precision THEN {0, 2, MaxPrecision} ELSE {0}

NextRepeat ==
    \/ \E xin \in XRepeat, mp \in PrecisionsRepeat(build) : CallE1(xin, mp)
    \/ \E xin \in XRepeat, mp \in PrecisionsRepeat(build) : CallEi(xin, mp)
    \/ \E xin \in XRepeat : CallWithErrorE1(xin)
    \/ \E xin \in XRepeat : CallWithErrorEi(xin)
    \/ Remember
    \/ Return

\* Any sequence of calls, some of them kept by the caller.
SpecRepeat == Init /\ [][NextRepeat]_vars

-----------------------------------------------------------------------------
(* chebyshev::min, which the tests of the crate call: usize is a word of    *)
(* UsizeBits bits.                                                          *)

UsizeBits == 4

USIZE_MAX == 2 ^ UsizeBits - 1

Usize == 0 .. USIZE_MAX

\* usize::checked_sub: None when the difference would be below zero.
checked_sub(a, b) ==
    IF b <= a THEN [is_some |-> TRUE, v |-> a - b] ELSE [is_some |-> FALSE, v |-> 0]

\* min written as `if a >= b + 1 { b } else { a }`: b + 1 overflows for
\* b = usize::MAX, which panics with debug assertions and wraps without.
chebyshev_min_plus_one(a, b) ==
    [value |-> IF a >= (b + 1) % (USIZE_MAX + 1) THEN b ELSE a,
     panic |-> build.debug /\ b = USIZE_MAX]

\* chebyshev::min
chebyshev_min(a, b) ==
    [value |-> IF checked_sub(a, b).is_some THEN b ELSE a,
     panic |-> FALSE]

CallMin(a, b) ==
    /\ fn = "none"
    /\ fn' = "chebyshev::min"
    /\ x' = ONE
    /\ max_precision' = 0
    /\ res' = [kind |-> "usize", a |-> a, b |-> b, min |-> chebyshev_min(a, b)]
    /\ UNCHANGED << build, last >>

NextMin ==
    \/ \E a \in Usize, b \in Usize : CallMin(a, b)
    \/ Return

\* Any sequence of calls of chebyshev::min.
SpecMin == Init /\ [][NextMin]_vars

-----------------------------------------------------------------------------
(* The functions of the modules neg and pos of lib.rs, on the inputs of     *)
(* their sign: Negative<Finite<f64>> and Positive<Finite<f64>>.             *)

XNegative == { v \in XInputs : IsNeg(v) }

XPositive == { v \in XInputs : IsPos(v) }

CallNegE1(xin, mp) ==
    /\ fn = "none"
    /\ fn' = "neg::E1"
    /\ x' = xin
    /\ max_precision' = mp
    /\ res' = neg_E1(xin, mp, build)
    /\ UNCHANGED << build, last >>

CallPosE1(xin, mp) ==
    /\ fn = "none"
    /\ fn' = "pos::E1"
    /\ x' = xin
    /\ max_precision' = mp
    /\ res' = pos_E1(xin, mp, build)
    /\ UNCHANGED << build, last >>

CallNegEi(xin, mp) ==
    /\ fn = "none"
    /\ fn' = "neg::Ei"
    /\ x' = xin
    /\ max_precision' = mp
    /\ res' = neg_Ei(xin, mp, build)
    /\ UNCHANGED << build, last >>

CallPosEi(xin, mp) ==
    /\ fn = "none"
    /\ fn' = "pos::Ei"
    /\ x' = xin
    /\ max_precision' = mp
    /\ res' = pos_Ei(xin, mp, build)
    /\ UNCHANGED << build, last >>

NextSigned ==
    \/ \E xin \in XNegative, mp \in Precisions(build) : CallNegE1(xin, mp)
    \/ \E xin \in XPositive, mp \in Precisions(build) : CallPosE1(xin, mp)
    \/ \E xin \in XNegative, mp \in Precisions(build) : CallNegEi(xin, mp)
    \/ \E xin \in XPositive, mp \in Precisions(build) : CallPosEi(xin, mp)
    \/ Return

\* Any sequence of calls of the functions of neg and pos.
SpecSigned == Init /\ [][NextSigned]_vars

(***************************************************************************)
(* Properties *)
(***************************************************************************)
E1Calls == {"E1", "with_error::E1"}
EiCalls == {"Ei", "with_error::Ei"}
DomainErrors == {"ArgumentTooNegative", "ArgumentTooPositive"}

\* What E1 returns for the negated argument of the finished call of Ei.
E1OfNegated == E1(Neg(x), max_precision, build)

\* The finished call made again in the build b.
CallIn(b) ==
    CASE fn = "E1" -> E1(x, max_precision, b)
      [] fn = "Ei" -> Ei(x, max_precision, b)
      [] fn = "with_error::E1" -> with_error_E1(x, b)
      [] fn = "with_error::Ei" -> with_error_Ei(x, b)
      [] OTHER -> NoResult

C3_EiNegatesE1 ==
    fn \in EiCalls =>
        /\ (res.kind = "Ok" <=> E1OfNegated.kind = "Ok")
        /\ (res.kind = "Ok" => res.approx.value = Neg(E1OfNegated.approx.value))

C3_Witness ==
    /\ fn = "Ei"
    /\ x.m = -16 * Grid
    /\ res.kind = "Ok"
    /\ IsNeg(res.approx.value)
    /\ res.approx.value = Neg(E1(F64(16), max_precision, build).approx.value)

\* C4: when Ei(x) succeeds, its error bound is the error bound of E1(-x)
\* unchanged: the value is the only field of the result that differs.
C4_EiKeepsErrorBound ==
    (fn \in EiCalls /\ res.kind = "Ok") =>
        /\ res.approx.error = E1OfNegated.approx.error
        /\ [res EXCEPT !.approx = [@ EXCEPT !.value = Neg(@)]] = E1OfNegated

C4_Witness ==
    /\ fn = "Ei"
    /\ build.error
    /\ res.kind = "Ok"
    /\ IsPos(res.approx.error)
    /\ IsPos(E1OfNegated.approx.error)

\* C5 as stated: when Ei(x) fails, the error carries the caller's x, not -x:
\* ArgumentTooPositive(x) for a too large positive x and
\* ArgumentTooNegative(x) for a too large negative x.
C5_EiErrorCarriesCallersX ==
    (fn \in EiCalls /\ res.kind # "Ok") =>
        /\ res.arg = x
        /\ (IsPos(x) => res.kind = "ArgumentTooPositive")
        /\ (IsNeg(x) => res.kind = "ArgumentTooNegative")

\* C6 as stated: for x exactly -10, E1 uses le_neg_4.
C6_TieAtNeg10UsesLeNeg4 ==
    (fn \in E1Calls /\ x = F64(-10)) => res.handler = "le_neg_4"

\* C6 amended: a tie at an interior boundary goes to the interval that ends
\* there: for x exactly -10, E1 uses le_neg_10, not le_neg_4; the ties at -4,
\* -1, 1 and 4 go to le_neg_4, le_neg_1, le_pos_1 and le_pos_4.
C6_TieGoesToIntervalEndingThere ==
    fn \in E1Calls =>
        /\ (x = F64(-10) => res.handler = "le_neg_10")
        /\ (x = F64(-4) => res.handler = "le_neg_4")
        /\ (x = F64(-1) => res.handler = "le_neg_1")
        /\ (x = F64(1) => res.handler = "le_pos_1")
        /\ (x = F64(4) => res.handler = "le_pos_4")

C6_Witness ==
    /\ fn = "E1"
    /\ x = F64(-10)
    /\ res.kind = "Ok"
    /\ res.handler = "le_neg_10"

\* The interval of the partition of the nonzero reals that holds v, by the
\* outcome the partition gives it.
Partition(v) ==
    CASE v <= -XMAX -> "ArgumentTooNegative"
      [] -XMAX < v /\ v <= -10 * Grid -> "le_neg_10"
      [] -10 * Grid < v /\ v <= -4 * Grid -> "le_neg_4"
      [] -4 * Grid < v /\ v <= -1 * Grid -> "le_neg_1"
      [] -1 * Grid < v /\ v < 0 -> "le_pos_1"
      [] 0 < v /\ v <= 1 * Grid -> "le_pos_1"
      [] 1 * Grid < v /\ v <= 4 * Grid -> "le_pos_4"
      [] 4 * Grid < v /\ v < XMAX -> "le_pos_max"
      [] v >= XMAX -> "ArgumentTooPositive"

C9_ErrorNonNegative ==
    (fn # "none" /\ build.error /\ res.kind = "Ok") => ~IsNeg(res.approx.error)

C9_Witness ==
    /\ fn = "E1"
    /\ build.error
    /\ ~build.debug
    /\ res.kind = "Ok"
    /\ res.handler = "le_neg_4"
    /\ IsNeg(Mul(Div(ONE, x), Exp(Neg(x))))
    /\ IsPos(res.approx.error)

\* C10: the value computed with the error feature equals the value computed
\* without it: the error accumulator is never read when the value is computed.
C10_ValueIndependentOfErrorFeature ==
    fn \in {"E1", "Ei"} =>
        /\ CallIn([build EXCEPT !.error = TRUE]).kind = CallIn([build EXCEPT !.error = FALSE]).kind
        /\ CallIn([build EXCEPT !.error = TRUE]).approx.value = res.approx.value
        /\ CallIn([build EXCEPT !.error = FALSE]).approx.value = res.approx.value

C10_Witness ==
    /\ fn = "E1"
    /\ build.error
    /\ res.kind = "Ok"
    /\ res.handler = "le_neg_10"
    /\ IsPos(res.approx.error)
    /\ CallIn([build EXCEPT !.error = FALSE]).approx.value = res.approx.value
    /\ CallIn([build EXCEPT !.error = FALSE]).approx.error = ZERO

\* The coefficient table of each piecewise function.
TableOf(handler) ==
    CASE handler = "le_neg_10" -> AE11
      [] handler = "le_neg_4" -> AE12
      [] handler = "le_neg_1" -> E11
      [] handler = "le_pos_1" -> E12
      [] handler = "le_pos_4" -> AE13
      [] handler = "le_pos_max" -> AE14

\* The call of chebyshev::eval made by the finished call.
Cheb == res.approx.cheb

\* C11: with the precision feature every piecewise function evaluates its
\* series at order min(max_precision, N - 1), N the length of its own table,
\* so the order handed to eval is < N; without the feature the order is N - 1.
C11_OrderClampedToTable ==
    (fn # "none" /\ res.kind = "Ok") =>
        /\ Cheb.coefficients = TableOf(res.handler)
        /\ Cheb.order < Len(TableOf(res.handler))
        /\ Cheb.order = IF build.precision
                        THEN Min(max_precision, Len(TableOf(res.handler)) - 1)
                        ELSE Len(TableOf(res.handler)) - 1

C11_Witness ==
    /\ fn = "E1"
    /\ build.precision
    /\ max_precision = MaxPrecision
    /\ res.kind = "Ok"
    /\ res.handler = "le_pos_1"
    /\ Cheb.order = size_E12 - 1
    /\ max_precision > Cheb.order

\* C12: for every table of length N and every max_precision >= N - 1, the
\* evaluation of a build with the precision feature returns the same value and
\* the same error bound as the build without it.
C12_ClampedEqualsFullOrder ==
    (/\ fn \in {"E1", "Ei"}
     /\ build.precision
     /\ res.kind = "Ok"
     /\ max_precision >= Len(TableOf(res.handler)) - 1) =>
        /\ CallIn([build EXCEPT !.precision = FALSE]).kind = "Ok"
        /\ CallIn([build EXCEPT !.precision = FALSE]).approx.value = res.approx.value
        /\ CallIn([build EXCEPT !.precision = FALSE]).approx.error = res.approx.error

C12_Witness ==
    /\ fn = "E1"
    /\ build.precision
    /\ build.error
    /\ res.kind = "Ok"
    /\ res.handler = "le_neg_10"
    /\ max_precision = size_AE11 - 1
    /\ IsPos(res.approx.error)
    /\ CallIn([build EXCEPT !.precision = FALSE]).approx.cheb.order = max_precision

RECURSIVE ClenshawLoop(_, _, _)
ClenshawLoop(c, y, st) ==
    IF st.j >= 1
    THEN ClenshawLoop(c, y,
                      [j |-> st.j - 1,
                       d |-> Add(Sub(Mul(Mul(F64(2), y), st.d), st.dd), c[st.j + 1]),
                       dd |-> st.d])
    ELSE st

\* y*d - dd + 0.5*c[0] on the d and dd the recurrence ends with.
ClenshawLast(c, y, st) ==
    Add(Sub(Mul(y, st.d), st.dd), Mul(M(Grid \div 2), c[0 + 1]))

Clenshaw(c, y, order) ==
    ClenshawLast(c, y, ClenshawLoop(c, y, [j |-> order, d |-> ZERO, dd |-> ZERO]))

\* C14: for every table c of length N > 0, every order < N and every point y,
\* eval returns the value of the Clenshaw recurrence started from d = dd = 0 and
\* run for j = order down to 1, closed by value = y*d - dd + 0.5*c[0]; for
\* order = 0 the value is 0.5*c[0].
C14_EvalIsClenshaw ==
    (fn # "none" /\ res.kind = "Ok") =>
        /\ Cheb.value = Clenshaw(Cheb.coefficients, Cheb.x, Cheb.order)
        /\ (Cheb.order = 0 =>
                Cheb.value = Mul(M(Grid \div 2), Cheb.coefficients[0 + 1]))

C14_Witness ==
    /\ fn = "E1"
    /\ build.precision
    /\ max_precision = 3
    /\ res.kind = "Ok"
    /\ res.handler = "le_pos_4"
    /\ Cheb.order = 3
    /\ Cheb.x # ZERO
    /\ Cheb.value = Clenshaw(AE13, Cheb.x, 3)
    /\ Cheb.value # Mul(M(Grid \div 2), AE13[0 + 1])

\* C15 as stated: the error bound returned by eval is
\* machine_epsilon * e + |c[order]|, order being the truncation order the
\* recurrence used, for every order < N.
C15_ErrorUsesTruncationOrder ==
    (fn # "none" /\ build.error /\ res.kind = "Ok") =>
        Cheb.error = Add(Mul(GSL_DBL_EPSILON, Cheb.e),
                         Abs(Cheb.coefficients[Cheb.order + 1]))

\* C16: for every order < N the loop of eval terminates: its body runs exactly
\* `order` times with j = order, order - 1, ..., 1 in that order, every
\* coefficient index read is < N, and j never goes below 0.
C16_LoopRunsOrderTimes ==
    (fn # "none" /\ res.kind = "Ok") =>
        /\ Len(Cheb.js) = Cheb.order
        /\ \A i \in 1 .. Len(Cheb.js) : Cheb.js[i] = Cheb.order - i + 1
        /\ \A i \in 1 .. Len(Cheb.reads) :
               Cheb.reads[i] \in 0 .. (Len(Cheb.coefficients) - 1)
        /\ Cheb.j = 0

C16_Witness ==
    /\ fn = "E1"
    /\ build.precision
    /\ res.kind = "Ok"
    /\ res.handler = "le_neg_10"
    /\ Cheb.order = size_AE11 - 1
    /\ Len(Cheb.js) = size_AE11 - 1
    /\ Cheb.js[1] = size_AE11 - 1
    /\ Cheb.js[Len(Cheb.js)] = 1
    /\ Cheb.j = 0

\* The sub-interval of each piecewise function.
InSubInterval(handler, v) ==
    CASE handler = "le_neg_10" -> -XMAX < v /\ v <= -10 * Grid
      [] handler = "le_neg_4" -> -10 * Grid < v /\ v <= -4 * Grid
      [] handler = "le_neg_1" -> -4 * Grid < v /\ v <= -1 * Grid
      [] handler = "le_pos_1" -> -1 * Grid < v /\ v <= 1 * Grid /\ v # 0
      [] handler = "le_pos_4" -> 1 * Grid < v /\ v <= 4 * Grid
      [] handler = "le_pos_max" -> 4 * Grid < v /\ v < XMAX
      [] OTHER -> FALSE

ScaledBranches == {"le_neg_10", "le_neg_4", "le_pos_4", "le_pos_max"}

\* s = exp(-x) / x
ScaleOf(v) == Mul(Div(ONE, v), Exp(Neg(v)))

\* C18 as stated: on all four exponential-scaled branches the value is
\* s*(1 + cheb.value) with s = exp(-x)/x, and the first term of the error bound
\* is exactly s*cheb.error.
C18_FirstTermOnAllFour ==
    (fn \in E1Calls /\ res.handler \in ScaledBranches) =>
        /\ res.approx.value = Mul(ScaleOf(res.harg), Add(ONE, Cheb.value))
        /\ (build.error =>
                res.approx.init_err = Mul(ScaleOf(res.harg), Cheb.error))

\* C18 amended: on the four exponential-scaled branches the value is
\* s*(1 + cheb.value); the first term of the error bound is s*cheb.error on
\* le_neg_10, le_neg_4 and le_pos_4, and s*(eps + cheb.error) on le_pos_max.
C18_FirstTermExceptPosMax ==
    (fn \in E1Calls /\ res.handler \in ScaledBranches) =>
        /\ res.approx.value = Mul(ScaleOf(res.harg), Add(ONE, Cheb.value))
        /\ (build.error /\ res.handler # "le_pos_max" =>
                res.approx.init_err = Mul(ScaleOf(res.harg), Cheb.error))
        /\ (build.error /\ res.handler = "le_pos_max" =>
                res.approx.init_err =
                    Mul(ScaleOf(res.harg), Add(GSL_DBL_EPSILON, Cheb.error)))

C18_Witness ==
    /\ fn = "E1"
    /\ build.error
    /\ res.kind = "Ok"
    /\ res.handler = "le_pos_max"
    /\ res.approx.init_err = Mul(ScaleOf(x), Add(GSL_DBL_EPSILON, Cheb.error))
    /\ res.approx.init_err # Mul(ScaleOf(x), Cheb.error)

\* 2*eps*factor*|value|
SecondTerm(factor, value) ==
    Mul(Mul(Mul(F64(2), GSL_DBL_EPSILON), factor), Abs(value))

\* C19: the second error term is 2*eps*(|x|+1)*|value| on exactly the two
\* outermost tail intervals (le_neg_10 and le_pos_max); the two inner tail
\* intervals (le_neg_4 and le_pos_4) use 2*eps*|value|.
C19_FactorOnOutermostOnly ==
    (fn # "none" /\ build.error /\ res.handler \in ScaledBranches) =>
        res.approx.addl_err =
            SecondTerm(IF res.handler \in {"le_neg_10", "le_pos_max"}
                       THEN Add(Abs(res.harg), ONE)
                       ELSE ONE,
                       res.approx.value)

C19_Witness ==
    /\ fn = "E1"
    /\ build.error
    /\ res.kind = "Ok"
    /\ res.handler = "le_pos_4"
    /\ res.approx.addl_err = SecondTerm(ONE, res.approx.value)
    /\ res.approx.addl_err # SecondTerm(Add(Abs(x), ONE), res.approx.value)

\* C20 as stated: for x in (-1, 0), E1 is computed by le_pos_1 applied to the
\* sign-flipped input: the argument handed to le_pos_1 is -x, in (0, 1).
C20_LePos1GetsFlippedInput ==
    (fn \in E1Calls /\ -1 * Grid < x.m /\ x.m < 0) =>
        /\ res.handler = "le_pos_1"
        /\ res.harg = Neg(x)
        /\ IsPos(res.harg)

\* C20 amended: for x in (-1, 0), E1 is computed by le_pos_1 applied to x
\* itself: the argument handed to le_pos_1 is x, in (-1, 0), and x is the
\* point at which its series is evaluated.
C20_LePos1GetsXItself ==
    (fn \in E1Calls /\ -1 * Grid < x.m /\ x.m < 0) =>
        /\ res.handler = "le_pos_1"
        /\ res.harg = x
        /\ IsNeg(res.harg)
        /\ Cheb.x = x

C20_Witness ==
    /\ fn = "E1"
    /\ x = M(-(Grid \div 2))
    /\ res.kind = "Ok"
    /\ res.handler = "le_pos_1"
    /\ res.harg = x
    /\ Cheb.x = x

\* C21: chebyshev::min(a, b) equals the smaller of a and b for all usize a and
\* b, a = b, 0 and usize::MAX included, without overflow or underflow.
C21_MinIsSmaller ==
    fn = "chebyshev::min" =>
        /\ ~res.min.panic
        /\ res.min.value \in {res.a, res.b}
        /\ res.min.value <= res.a
        /\ res.min.value <= res.b

C21_Witness ==
    /\ fn = "chebyshev::min"
    /\ res.a = 0
    /\ res.b = USIZE_MAX
    /\ res.min.value = 0
    /\ ~res.min.panic

\* The rescaling of each sub-interval onto the domain of the series.
Rescaled(handler, v) ==
    CASE handler = "le_neg_10" -> Add(Div(F64(20), v), ONE)
      [] handler = "le_neg_4" -> Div(Add(Div(F64(40), v), F64(7)), F64(3))
      [] handler = "le_neg_1" -> Div(Add(Mul(F64(2), v), F64(5)), F64(3))
      [] handler = "le_pos_1" -> v
      [] handler = "le_pos_4" -> Div(Sub(Div(F64(8), v), F64(5)), F64(3))
      [] handler = "le_pos_max" -> Sub(Div(F64(8), v), ONE)

\* C22: for every piecewise function and every x the router sends to it, the
\* rescaled point passed to chebyshev::eval lies in [-1, 1]: 20/x+1,
\* (40/x+7)/3, (2x+5)/3, x, (8/x-5)/3 and 8/x-1 on the respective intervals.
C22_RescaledPointInDomain ==
    (fn # "none" /\ res.handler # "none") =>
        /\ Cheb.x = Rescaled(res.handler, res.harg)
        /\ ~IsNeg(Add(Cheb.x, ONE))
        /\ ~IsPos(Sub(Cheb.x, ONE))

C22_Witness ==
    /\ fn = "E1"
    /\ x = F64(-10)
    /\ res.kind = "Ok"
    /\ res.handler = "le_neg_10"
    /\ Cheb.x = Neg(ONE)

\* What the E1 of the opposite sign returns for the negated argument of the
\* finished call of neg::Ei or pos::Ei.
SignedE1OfNegated ==
    IF fn = "neg::Ei"
    THEN pos_E1(Neg(x), max_precision, build)
    ELSE neg_E1(Neg(x), max_precision, build)

=============================================================================
